---- MODULE Spec2Model ----
(***************************************************************************)
(* Cart-to-enrollment checkout flow of web/views.py: the cart store, the   *)
(* payment gateway as seen through stripe.PaymentIntent, guest account     *)
(* provisioning and enrollment materialization in checkout_success.        *)
(*                                                                         *)
(* Spec     : every view runs as one atomic action (one request at a time) *)
(* SpecConc : checkout_success runs statement group by statement group, so *)
(*            that two requests interleave between database statements.    *)
(* SpecCart : the cart views alone, each request noted with its response.  *)
(* SpecCartConc : add_course_to_cart runs statement by statement in two     *)
(*            tabs of one browser.                                         *)
(* SpecEnroll : direct enrollment, the payment webhook handlers and the    *)
(*            checkout of the signed-in member.                            *)
(* SpecPayment : direct enrollment and the webhook handlers alone.         *)
(* SpecWebhook : direct enrollment and the stripe_webhook endpoint.        *)
(* SpecReload : a paid cart whose success page is requested twice, the     *)
(*            two requests interleaved.                                    *)
(* SpecCapacity : two members and the four ways into a limited course.     *)
(* SpecPeer : the peer connection and peer message views.                  *)
(***************************************************************************)
EXTENDS Integers, Sequences, FiniteSets, TLC

\* ------------------------------------------------------------------ bounds
MaxItemId == 2         \* CartItem primary keys the model hands out
MaxTime == 1           \* seconds of wall clock the model lets pass
MaxRetry == 1          \* draws of get_random_string(4) per username loop
MaxMessages == 1       \* PeerMessage rows the model lets exist

\* ------------------------------------------------------- catalog and inputs
Courses == {1, 2}
Sessions == {1}
CoursePrice == [c \in Courses |-> IF c = 1 THEN 10 ELSE 20]
SessionPrice == [s \in Sessions |-> 5]
Clients == {"c1", "c2"}
PaymentRefs == {1}        \* "pi_1"
NoRef == 0               \* no payment_intent query parameter
Suffixes == {"r1", "r2"}
NoKey == 0             \* the empty session key ""
NoUser == 0            \* AnonymousUser / NULL foreign key
NoEmail == [local |-> << >>, domain |-> ""]
Emails == {[local |-> <<"n", "e", "w">>, domain |-> "x.com"]}
ReceiptEmails == Emails \cup {NoEmail}
BaseUsernameLen == 15

VARIABLES
    users,               \* auth_user rows: [id, username, email]
    carts,               \* Cart rows: [id, user, session_key]
    cartItems,           \* CartItem rows: [id, cart, course, session]
    nextItemId,          \* next CartItem primary key
    enrollments,         \* Enrollment rows: [id, student, course, status, payment_intent_id]
    sessionEnrollments,  \* SessionEnrollment rows: [id, student, session, status, payment_intent_id]
    courseProgress,      \* CourseProgress rows: [enrollment, completed_sessions]
    sessions,            \* per client: [key, user] (request.session / request.user)
    nextKey,             \* next anonymous session key
    intents,             \* the gateway's payment intents, by reference
    now,                 \* timezone.now(), in seconds
    proc,                \* per client: the checkout_success request in flight (SpecConc)
    last,                \* the request that finished last, with the database it started from
    connections,         \* PeerConnection rows: [id, sender, receiver, status]
    peerMessages         \* PeerMessage rows: [id, sender, receiver, content, is_read]

vars == <<users, carts, cartItems, nextItemId, enrollments, sessionEnrollments,
          courseProgress, sessions, nextKey, intents, now, proc, last,
          connections, peerMessages>>

\* ------------------------------------------------------------ the database
World ==
    [users |-> users, carts |-> carts, cartItems |-> cartItems,
     nextItemId |-> nextItemId, enrollments |-> enrollments,
     sessionEnrollments |-> sessionEnrollments, courseProgress |-> courseProgress,
     sessions |-> sessions, nextKey |-> nextKey,
     connections |-> connections, peerMessages |-> peerMessages]

SetWorld(w) ==
    /\ users' = w.users
    /\ carts' = w.carts
    /\ cartItems' = w.cartItems
    /\ nextItemId' = w.nextItemId
    /\ enrollments' = w.enrollments
    /\ sessionEnrollments' = w.sessionEnrollments
    /\ courseProgress' = w.courseProgress
    /\ sessions' = w.sessions
    /\ nextKey' = w.nextKey
    /\ connections' = w.connections
    /\ peerMessages' = w.peerMessages

Min(a, b) == IF a < b THEN a ELSE b

Take(s, n) == SubSeq(s, 1, Min(n, Len(s)))

RECURSIVE SortById(_)
SortById(S) ==
    IF S = {} THEN << >>
    ELSE LET m == CHOOSE x \in S : \A y \in S : x.id <= y.id
         IN <<m>> \o SortById(S \ {m})

\* cart.items: the line items of one cart
CartItemsOf(w, cart) == {i \in w.cartItems : i.cart = cart}

\* cart.total: sum of the prices of the line items
RECURSIVE SumPrices(_)
SumPrices(S) ==
    IF S = {} THEN 0
    ELSE LET i == CHOOSE x \in S : TRUE
         IN (IF i.course # 0 THEN CoursePrice[i.course] ELSE SessionPrice[i.session])
            + SumPrices(S \ {i})

CartTotal(w, cart) == SumPrices(CartItemsOf(w, cart))

Usernames(w) == {u.username : u \in w.users}

\* f"{base_username}_{timestamp}" and f"{base_username}_{timestamp}_{get_random_string(4)}"
Handle(base, ts, sfx) == [base |-> base, ts |-> ts, sfx |-> sfx]

\* email.split("@")[0][:15]
base_username(email) == Take(email.local, BaseUsernameLen)

\* ------------------------------------------------------ model constraints
\* Mutant: enrollments are not unique per (student, course).
EnrollmentExists_never(w, student, course) == FALSE

\* Enrollment.Meta.unique_together (student, course)
EnrollmentExists(w, student, course) ==
    \E e \in w.enrollments : e.student = student /\ e.course = course

\* SessionEnrollment.Meta.unique_together (student, session)
SessionEnrollmentExists(w, student, session) ==
    \E e \in w.sessionEnrollments : e.student = student /\ e.session = session

\* Mutant: line items are not unique per cart.
CartItemExists_never(w, cart, course, session) == FALSE

\* CartItem.Meta.unique_together (cart, course), (cart, session)
CartItemExists(w, cart, course, session) ==
    \E i \in w.cartItems : i.cart = cart /\ i.course = course /\ i.session = session

\* User.objects.filter(username=username).exists()
UsernameExists(w, username) == username \in Usernames(w)

\* ------------------------------------------------------------ ORM helpers
\* An operation on the database returns [ok, w, id]: ok = FALSE is a raised
\* IntegrityError that left the database as it was.
Enrollment_create(w, student, course, status, payment_intent_id) ==
    IF EnrollmentExists(w, student, course)
    THEN [ok |-> FALSE, w |-> w, id |-> 0]
    ELSE LET id == Cardinality(w.enrollments) + 1
         IN [ok |-> TRUE, id |-> id,
             w |-> [w EXCEPT !.enrollments = @ \cup
                      {[id |-> id, student |-> student, course |-> course,
                        status |-> status, payment_intent_id |-> payment_intent_id]}]]

\* Mutant: no progress tracker is made for a new enrollment.
CourseProgress_create_skipped(w, enrollment) == w

\* CourseProgress.objects.create(enrollment=enrollment)
CourseProgress_create(w, enrollment) ==
    [w EXCEPT !.courseProgress = @ \cup
        {[enrollment |-> enrollment, completed_sessions |-> {}]}]

SessionEnrollment_create(w, student, session, status, payment_intent_id) ==
    IF SessionEnrollmentExists(w, student, session)
    THEN [ok |-> FALSE, w |-> w, id |-> 0]
    ELSE LET id == Cardinality(w.sessionEnrollments) + 1
         IN [ok |-> TRUE, id |-> id,
             w |-> [w EXCEPT !.sessionEnrollments = @ \cup
                      {[id |-> id, student |-> student, session |-> session,
                        status |-> status, payment_intent_id |-> payment_intent_id]}]]

CartItem_create(w, cart, course, session) ==
    IF CartItemExists(w, cart, course, session)
    THEN [ok |-> FALSE, w |-> w, id |-> 0]
    ELSE [ok |-> TRUE, id |-> w.nextItemId,
          w |-> [w EXCEPT !.nextItemId = @ + 1,
                          !.cartItems = @ \cup
                      {[id |-> w.nextItemId, cart |-> cart,
                        course |-> course, session |-> session]}]]

\* User.objects.create_user(username=..., email=..., password=...)
create_user(w, username, email) ==
    IF UsernameExists(w, username)
    THEN [ok |-> FALSE, w |-> w, id |-> 0]
    ELSE LET id == Cardinality(w.users) + 1
         IN [ok |-> TRUE, id |-> id,
             w |-> [w EXCEPT !.users = @ \cup
                      {[id |-> id, username |-> username, email |-> email]}]]

\* Cart.objects.get_or_create(user=...) / (session_key=...)
Cart_get_or_create(w, user, session_key) ==
    LET found == {k \in w.carts : k.user = user /\ k.session_key = session_key}
        id == Cardinality(w.carts) + 1
    IN IF found # {}
       THEN [w |-> w, cart |-> (CHOOSE k \in found : TRUE).id]
       ELSE [w |-> [w EXCEPT !.carts = @ \cup
                       {[id |-> id, user |-> user, session_key |-> session_key]}],
             cart |-> id]

get_or_create_cart(w, c) ==
    LET s == w.sessions[c]
    IN IF s.user # NoUser
       THEN LET found == {k \in w.carts : k.user = s.user}
            IN IF found # {}
               THEN [w |-> w, cart |-> (CHOOSE k \in found : TRUE).id]
               ELSE Cart_get_or_create(w, s.user, NoKey)
       ELSE IF s.key = NoKey
            THEN \* request.session.create()
                 Cart_get_or_create(
                     [w EXCEPT !.sessions[c].key = w.nextKey, !.nextKey = @ + 1],
                     NoUser, w.nextKey)
            ELSE Cart_get_or_create(w, NoUser, s.key)

\* django.contrib.auth.login(request, user)
\* (the session key is cycled: the key the anonymous session had is gone, and
\* no view reads the key of an authenticated session)
login(w, c, user) == [w EXCEPT !.sessions[c] = [key |-> NoKey, user |-> user]]

\* Mutant: the block is not a transaction, its writes stay.
atomic_rollback_none(w0, w1) == w1

\* What the database holds when a transaction.atomic() block that started
\* at w0 and wrote up to w1 is left by an exception.
atomic_rollback(w0, w1) == w0

\* ------------------------------------------------------- checkout_success
\* The frame of one checkout_success request: its inputs, its position and
\* its local variables.  A step of the request yields the set of its possible
\* outcomes [w, l]: a collaborator (send_welcome_email,
\* send_enrollment_confirmation, notify_teacher_new_enrollment) returns or
\* raises, and get_random_string draws any suffix.
NewRequest(w, c, ref) ==
    [op |-> "checkout_success", c |-> c, ref |-> ref,
     pre |-> w, pc |-> "begin", resp |-> "", msg |-> "", err |-> "",
     cart |-> 0, items |-> {}, guest |-> FALSE, user |-> NoUser,
     email |-> NoEmail, username |-> Handle(<< >>, 0, ""), todo |-> << >>,
     enrollments |-> << >>, session_enrollments |-> << >>, total_amount |-> 0]

\* messages.error(request, msg); return redirect("cart_view")
Redirect(w, l, msg, err) ==
    [w |-> w, l |-> [l EXCEPT !.pc = "done", !.resp = "redirect_cart_view",
                              !.msg = msg, !.err = err]]

\* Mutant: the handler undoes what the request wrote before it failed.
Failed_with_cleanup(w, l, err) ==
    Redirect([w EXCEPT !.enrollments = l.pre.enrollments,
                       !.sessionEnrollments = l.pre.sessionEnrollments,
                       !.courseProgress = l.pre.courseProgress],
             l, "Failed to process checkout", err)

\* except Exception: "Failed to process checkout" (no cleanup of w)
Failed(w, l, err) == Redirect(w, l, "Failed to process checkout", err)

\* while User.objects.filter(username=username).exists(): draw a new suffix.
\* The usernames the loop can end with, within n further draws.
RECURSIVE username_loop(_, _, _, _, _)
username_loop(w, base, ts, username, n) ==
    IF ~UsernameExists(w, username) THEN {username}
    ELSE IF n = 0 THEN {}
    ELSE UNION {username_loop(w, base, ts, Handle(base, ts, sfx), n - 1) :
                  sfx \in Suffixes}

\* Mutant: any intent the gateway knows counts as paid.
payment_succeeded_any_status(intent) == intent.status # "absent"

\* if payment_intent.status != "succeeded": (negated)
payment_succeeded(intent) == intent.status = "succeeded"

\* Mutant: the empty-cart check is missing.
cart_is_empty_unchecked(w, cart) == FALSE

\* if not cart.items.exists(): (line 1597)
cart_is_empty(w, cart) == CartItemsOf(w, cart) = {}

\* Mutant: the receipt-email check is missing.
email_missing_unchecked(email) == FALSE

\* if not email: (line 1605)
email_missing(email) == email = NoEmail

\* lines 1577-1617: payment verification, cart resolution, guest email,
\* and the choice of the guest's username
CS_begin(w, l) ==
    IF l.ref = NoRef THEN {Redirect(w, l, "No payment information found.", "")}
    ELSE IF intents[l.ref].status = "absent"
    THEN {Redirect(w, l, "Payment verification failed", "StripeError")}
    ELSE IF ~payment_succeeded(intents[l.ref])
    THEN {Redirect(w, l, "Payment was not successful.", "")}
    ELSE
    LET g == get_or_create_cart(w, l.c)
        items == CartItemsOf(g.w, g.cart)
        l1 == [l EXCEPT !.cart = g.cart, !.items = items]
        email == intents[l.ref].receipt_email
        user == g.w.sessions[l.c].user
        base == base_username(email)
    IN IF cart_is_empty(g.w, g.cart) THEN {Redirect(g.w, l1, "Cart is empty.", "")}
       ELSE IF user # NoUser
       THEN {[w |-> g.w, l |-> [l1 EXCEPT !.pc = "query", !.user = user]]}
       ELSE IF email_missing(email)
       THEN {Redirect(g.w, [l1 EXCEPT !.guest = TRUE],
                      "No email provided for guest checkout.", "")}
       ELSE {[w |-> g.w,
              l |-> [l1 EXCEPT !.pc = "account", !.guest = TRUE,
                               !.email = email, !.username = u]] :
               u \in username_loop(g.w, base, now, Handle(base, now, ""), MaxRetry)}

\* Mutant: the cart gets its user and keeps the session key it had.
Cart_reown_keeps_key(k, user) == [k EXCEPT !.user = user]

\* Mutant: the session key is emptied and the user is not set.
Cart_reown_drops_owner(k, user) == [k EXCEPT !.session_key = NoKey]

\* cart.user = user; cart.session_key = ""; cart.save()
Cart_reown(k, user) == [k EXCEPT !.user = user, !.session_key = NoKey]

\* lines 1621-1638: the writes of the transaction.atomic() block and its commit
CS_account(w, l) ==
    LET cu == create_user(w, l.username, l.email)
        w2 == [cu.w EXCEPT !.carts =
                 {IF k.id = l.cart THEN Cart_reown(k, cu.id) ELSE k : k \in @}]
    IN IF ~cu.ok THEN {Failed(atomic_rollback(w, cu.w), l, "IntegrityError")}
       ELSE {Failed(atomic_rollback(w, w2), l, "send_welcome_email"),
             [w |-> login(w2, l.c, cu.id),
              l |-> [l EXCEPT !.pc = "query", !.user = cu.id]]}

\* Mutant: a payment reference that already tags a record materializes nothing.
CS_query_once_per_reference(w, l) ==
    LET used == \/ \E e \in w.enrollments : e.payment_intent_id = l.ref
                \/ \E e \in w.sessionEnrollments : e.payment_intent_id = l.ref
        todo == IF used THEN << >> ELSE SortById(CartItemsOf(w, l.cart))
    IN {[w |-> w,
         l |-> [l EXCEPT !.todo = todo,
                         !.pc = IF todo = << >> THEN "clear" ELSE "item"]]}

\* line 1648: for item in cart.items.all()
CS_query(w, l) ==
    LET todo == SortById(CartItemsOf(w, l.cart))
    IN {[w |-> w,
         l |-> [l EXCEPT !.todo = todo,
                         !.pc = IF todo = << >> THEN "clear" ELSE "item"]]}

\* Mutant: the total is overwritten by the price of the item at hand.
total_amount_last_item(total_amount, price) == price

\* total_amount += item.course.price / total_amount += item.session.price
total_amount_add(total_amount, price) == total_amount + price

\* lines 1649-1669: one iteration of the loop
CS_item(w, l) ==
    LET item == Head(l.todo)
        rest == [l EXCEPT !.todo = Tail(@),
                          !.pc = IF Tail(l.todo) = << >> THEN "clear" ELSE "item"]
    IN IF item.course # 0
       THEN LET e == Enrollment_create(w, l.user, item.course, "approved", l.ref)
                w1 == CourseProgress_create(e.w, e.id)
                l1 == [rest EXCEPT !.enrollments = Append(@, e.id),
                                   !.total_amount =
                                       total_amount_add(@, CoursePrice[item.course])]
            IN IF ~e.ok THEN {Failed(w, l, "IntegrityError")}
               ELSE {Failed(w1, l1, "send_enrollment_confirmation"),
                     Failed(w1, l1, "notify_teacher_new_enrollment"),
                     [w |-> w1, l |-> l1]}
       ELSE IF item.session # 0
       THEN LET e == SessionEnrollment_create(w, l.user, item.session, "approved", l.ref)
            IN IF ~e.ok THEN {Failed(w, l, "IntegrityError")}
               ELSE {[w |-> e.w,
                      l |-> [rest EXCEPT !.session_enrollments = Append(@, e.id),
                                         !.total_amount =
                                           total_amount_add(@, SessionPrice[item.session])]]}
       ELSE {[w |-> w, l |-> rest]}

\* lines 1672-1686: cart.items.all().delete() and the receipt
CS_clear(w, l) ==
    {[w |-> [w EXCEPT !.cartItems = @ \ CartItemsOf(w, l.cart)],
      l |-> [l EXCEPT !.pc = "done", !.resp = "receipt"]]}

CS_step(w, l) ==
    CASE l.pc = "begin" -> CS_begin(w, l)
      [] l.pc = "account" -> CS_account(w, l)
      [] l.pc = "query" -> CS_query(w, l)
      [] l.pc = "item" -> CS_item(w, l)
      [] l.pc = "clear" -> CS_clear(w, l)

\* The whole request, start to response: the set of its possible outcomes.
RECURSIVE CS_run(_, _)
CS_run(w, l) ==
    IF l.pc = "done" THEN {[w |-> w, l |-> l]}
    ELSE UNION {CS_run(s.w, s.l) : s \in CS_step(w, l)}

\* ---------------------------------------------------------------- states
NoIntent ==
    [status |-> "absent", amount |-> 0, cart_id |-> 0, user_id |-> NoUser,
     session_key |-> NoKey, receipt_email |-> NoEmail]

Idle == [op |-> "idle"]

\* The registered user is an account that an earlier guest checkout made in
\* second 0 for new@x.com; the browser c1 is signed in as that user, the
\* browser c2 is a visitor without a session.
Registered ==
    [id |-> 1, username |-> Handle(<<"n", "e", "w">>, 0, ""),
     email |-> [local |-> <<"n", "e", "w">>, domain |-> "x.com"]]

InitWith(s) ==
    /\ users = {Registered}
    /\ carts = {}
    /\ cartItems = {}
    /\ nextItemId = 1
    /\ enrollments = {}
    /\ sessionEnrollments = {}
    /\ courseProgress = {}
    /\ sessions = s
    /\ nextKey = 1
    /\ connections = {}
    /\ peerMessages = {}
    /\ intents = [r \in PaymentRefs |-> NoIntent]
    /\ now = 0
    /\ proc = [c \in Clients |-> Idle]
    /\ last = [op |-> "none", c |-> ""]

Init ==
    InitWith([c \in Clients |->
                [key |-> NoKey, user |-> IF c = "c1" THEN Registered.id ELSE NoUser]])

Noted(op, c) == last' = [op |-> op, c |-> c]

\* ----------------------------------------------------------- environment
\* The wall clock read by timezone.now() advances.
Tick ==
    /\ now < MaxTime
    /\ now' = now + 1
    /\ UNCHANGED <<users, carts, cartItems, nextItemId, enrollments,
                   sessionEnrollments, courseProgress, sessions, nextKey, connections,
                   peerMessages,
                   intents, proc, last>>

\* The payer completes the payment at the gateway: the intent succeeds and
\* carries the receipt email the payer gave, if any.
Gateway_succeed(ref, email) ==
    /\ intents[ref].status = "requires_payment_method"
    /\ intents' = [intents EXCEPT ![ref].status = "succeeded",
                                  ![ref].receipt_email = email]
    /\ Noted("gateway_succeed", "")
    /\ UNCHANGED <<users, carts, cartItems, nextItemId, enrollments,
                   sessionEnrollments, courseProgress, sessions, nextKey, connections,
                   peerMessages, now, proc>>

\* ------------------------------------------------------------- cart store
\* lines 1514-1522 and 1530-1538: the cart of the requester, the insert of
\* the line item, and the message of the branch taken
AddToCart(w, c, course, session) ==
    LET g == get_or_create_cart(w, c)
        i == CartItem_create(g.w, g.cart, course, session)
    IN [w |-> i.w, ok |-> i.ok,
        msg |-> IF i.ok THEN "added to cart."
                ELSE IF session = 0 THEN "This item is already in your cart."
                ELSE "This session is already in your cart."]

add_course_to_cart(c, course) ==
    /\ nextItemId <= MaxItemId
    /\ SetWorld(AddToCart(World, c, course, 0).w)
    /\ Noted("add_course_to_cart", c)
    /\ UNCHANGED <<intents, now, proc>>

add_session_to_cart(c, session) ==
    /\ nextItemId <= MaxItemId
    /\ SetWorld(AddToCart(World, c, 0, session).w)
    /\ Noted("add_session_to_cart", c)
    /\ UNCHANGED <<intents, now, proc>>

\* stripe.PaymentIntent.create hands out the next unused reference.
FreshRef == CHOOSE r \in PaymentRefs :
                /\ intents[r].status = "absent"
                /\ \A q \in PaymentRefs : intents[q].status = "absent" => r <= q

create_cart_payment_intent(c, stripe_ok) ==
    /\ \E r \in PaymentRefs : intents[r].status = "absent"
    /\ LET g == get_or_create_cart(World, c)
           user == g.w.sessions[c].user
       IN /\ SetWorld(g.w)
          /\ IF CartItemsOf(g.w, g.cart) # {} /\ stripe_ok
             THEN intents' = [intents EXCEPT ![FreshRef] =
                     [status |-> "requires_payment_method",
                      amount |-> CartTotal(g.w, g.cart) * 100,
                      cart_id |-> g.cart,
                      user_id |-> user,
                      session_key |-> IF user = NoUser THEN g.w.sessions[c].key
                                      ELSE NoKey,
                      receipt_email |-> NoEmail]]
             ELSE UNCHANGED intents
    /\ Noted("create_cart_payment_intent", c)
    /\ UNCHANGED <<now, proc>>

\* ------------------------------------------------------- checkout_success
checkout_success(c, ref) ==
    /\ \E r \in CS_run(World, NewRequest(World, c, ref)) :
          /\ SetWorld(r.w)
          /\ last' = r.l
    /\ UNCHANGED <<intents, now, proc>>

Next ==
    \/ Tick
    \/ \E ref \in PaymentRefs, email \in ReceiptEmails : Gateway_succeed(ref, email)
    \/ \E c \in Clients, course \in Courses : add_course_to_cart(c, course)
    \/ \E c \in Clients, session \in Sessions : add_session_to_cart(c, session)
    \/ \E c \in Clients, stripe_ok \in BOOLEAN : create_cart_payment_intent(c, stripe_ok)
    \/ \E c \in Clients, ref \in PaymentRefs \cup {NoRef} : checkout_success(c, ref)

Spec == Init /\ [][Next]_vars

\* ------------------------------------------------- interleaved requests
\* Two visitors without an account, each with a browser of their own.
InitConc == InitWith([c \in Clients |-> [key |-> NoKey, user |-> NoUser]])

\* The interleaved specification keeps no snapshot of the database a request
\* started from.
NoSnapshot ==
    [users |-> {}, carts |-> {}, cartItems |-> {}, nextItemId |-> 0,
     enrollments |-> {}, sessionEnrollments |-> {}, courseProgress |-> {},
     sessions |-> << >>, nextKey |-> 0,
     connections |-> {}, peerMessages |-> {}]

\* A checkout_success request arrives.
CS_start(c, ref) ==
    /\ proc[c] = Idle
    /\ proc' = [proc EXCEPT ![c] = NewRequest(NoSnapshot, c, ref)]
    /\ UNCHANGED <<users, carts, cartItems, nextItemId, enrollments,
                   sessionEnrollments, courseProgress, sessions, nextKey, connections,
                   peerMessages,
                   intents, now, last>>

\* The request in flight runs up to its next group of database statements.
CS_next(c) ==
    /\ proc[c] # Idle
    /\ \E s \in CS_step(World, proc[c]) :
          /\ SetWorld(s.w)
          /\ IF s.l.pc = "done"
             THEN proc' = [proc EXCEPT ![c] = Idle] /\ last' = s.l
             ELSE proc' = [proc EXCEPT ![c] = s.l] /\ UNCHANGED last
    /\ UNCHANGED <<intents, now>>

NextConc ==
    \/ Tick
    \/ \E ref \in PaymentRefs, email \in ReceiptEmails : Gateway_succeed(ref, email)
    \/ \E c \in Clients, course \in Courses : add_course_to_cart(c, course)
    \/ \E c \in Clients : create_cart_payment_intent(c, TRUE)
    \/ \E c \in Clients, ref \in PaymentRefs : CS_start(c, ref)
    \/ \E c \in Clients : CS_next(c)

SpecConc == InitConc /\ [][NextConc]_vars

\* ------------------------------------------------- the success page, twice
\* What a cart can hold: a course or a session.
Products ==
    {[course |-> course, session |-> 0] : course \in Courses}
    \cup {[course |-> 0, session |-> session] : session \in Sessions}

\* The primary key of the line item of product p (keys need not be contiguous).
ItemIdOf(p) == IF p.course # 0 THEN p.course ELSE Cardinality(Courses) + p.session

\* A cart that has just been paid: the browser holds cart 1 with one to
\* MaxItemId line items, create_cart_payment_intent made the intent for it
\* and the payer completed the payment.  The browser is a guest's (session
\* key 1) or the registered member's; c1 and c2 are two requests of that one
\* browser, each with the request.user and request.session it arrived with.
InitPaid ==
    \E P \in SUBSET Products, member \in BOOLEAN :
        LET owner == IF member THEN Registered.id ELSE NoUser
            key == IF member THEN NoKey ELSE 1
            items == {[id |-> ItemIdOf(p), cart |-> 1, course |-> p.course,
                       session |-> p.session] : p \in P}
        IN /\ P # {}
           /\ Cardinality(P) <= MaxItemId
           /\ users = {Registered}
           /\ carts = {[id |-> 1, user |-> owner, session_key |-> key]}
           /\ cartItems = items
           /\ nextItemId = Cardinality(Products) + 1
           /\ enrollments = {}
           /\ sessionEnrollments = {}
           /\ courseProgress = {}
           /\ sessions = [c \in Clients |-> [key |-> key, user |-> owner]]
           /\ nextKey = 2
           /\ connections = {}
           /\ peerMessages = {}
           /\ intents = [r \in PaymentRefs |->
                           [status |-> "succeeded",
                            amount |-> SumPrices(items) * 100,
                            cart_id |-> 1,
                            user_id |-> owner,
                            session_key |-> key,
                            receipt_email |-> CHOOSE e \in Emails : TRUE]]
           /\ now = 0
           /\ proc = [c \in Clients |-> Idle]
           /\ last = [op |-> "none", c |-> ""]

\* The request in flight runs up to its next group of database statements;
\* the response stays on the page.
CS_next_page(c) ==
    /\ proc[c] # Idle
    /\ proc[c].pc # "done"
    /\ \E s \in CS_step(World, proc[c]) :
          /\ SetWorld(s.w)
          /\ proc' = [proc EXCEPT ![c] = s.l]
          /\ IF s.l.pc = "done" THEN last' = s.l ELSE UNCHANGED last
    /\ UNCHANGED <<intents, now>>

\* The success page is loaded, and loaded again before it answered.
NextReload ==
    \/ Tick
    \/ \E c \in Clients, ref \in PaymentRefs : CS_start(c, ref)
    \/ \E c \in Clients : CS_next_page(c)

SpecReload == InitPaid /\ [][NextReload]_vars

\* ------------------------------------------------------------ cart views
\* The cart views alone, each request noted with the database it started
\* from, the response it got and the message it left.
Answered(op, c, arg, resp, msg) ==
    last' = [op |-> op, c |-> c, arg |-> arg, resp |-> resp, msg |-> msg,
             pre |-> World]

\* An add that needs a CartItem key beyond MaxItemId is not taken; an add of
\* a duplicate needs no key.
add_course_to_cart_answered(c, course) ==
    /\ LET r == AddToCart(World, c, course, 0)
       IN /\ r.ok => nextItemId <= MaxItemId
          /\ SetWorld(r.w)
          /\ Answered("add_course_to_cart", c, course, "redirect_cart_view", r.msg)
    /\ UNCHANGED <<intents, now, proc>>

add_session_to_cart_answered(c, session) ==
    /\ LET r == AddToCart(World, c, 0, session)
       IN /\ r.ok => nextItemId <= MaxItemId
          /\ SetWorld(r.w)
          /\ Answered("add_session_to_cart", c, session, "redirect_cart_view", r.msg)
    /\ UNCHANGED <<intents, now, proc>>

\* Mutant: the item is looked up by its id alone.
CartItem_get_any_cart(w, item_id, cart) == {i \in w.cartItems : i.id = item_id}

\* get_object_or_404(CartItem, id=item_id, cart=cart): the rows that match
CartItem_get(w, item_id, cart) ==
    {i \in w.cartItems : i.id = item_id /\ i.cart = cart}

\* The item ids a request can name: every key handed out, and one never used.
ItemIds == 1..(MaxItemId + 1)

remove_from_cart(c, item_id) ==
    /\ LET g == get_or_create_cart(World, c)
           found == CartItem_get(g.w, item_id, g.cart)
       IN IF found = {}
          THEN /\ SetWorld(g.w)
               /\ Answered("remove_from_cart", c, item_id, "404", "")
          ELSE /\ SetWorld([g.w EXCEPT !.cartItems = @ \ found])
               /\ Answered("remove_from_cart", c, item_id, "redirect_cart_view",
                           "Item removed from cart.")
    /\ UNCHANGED <<intents, now, proc>>

NextCart ==
    \/ \E c \in Clients, course \in Courses : add_course_to_cart_answered(c, course)
    \/ \E c \in Clients, session \in Sessions : add_session_to_cart_answered(c, session)
    \/ \E c \in Clients, item_id \in ItemIds : remove_from_cart(c, item_id)

SpecCart == Init /\ [][NextCart]_vars

\* ------------------------------------------------ interleaved cart requests
\* Two tabs of one browser: both send the same session cookie, of a visitor
\* who has a session and has not opened a cart yet.
InitTabs ==
    /\ InitWith([c \in Clients |-> [key |-> 1, user |-> NoUser]])

\* The frame of one add_course_to_cart request that runs statement by
\* statement.
CartRequest(c, course) ==
    [op |-> "add_course_to_cart", c |-> c, course |-> course, pc |-> "get",
     cart |-> 0, resp |-> "", msg |-> "", err |-> ""]

\* The rows Cart.objects.get(user=...) / get(session_key=...) matches.
Cart_matching(w, c) ==
    LET s == w.sessions[c]
    IN IF s.user # NoUser THEN {k \in w.carts : k.user = s.user}
       ELSE {k \in w.carts : k.session_key = s.key}

\* get_or_create, first half: the SELECT.  One row: that is the cart.  No
\* row: the INSERT follows.  Several rows: MultipleObjectsReturned, which
\* add_course_to_cart does not catch.
GC_get(w, l) ==
    LET found == Cart_matching(w, l.c)
    IN IF found = {} THEN [w |-> w, l |-> [l EXCEPT !.pc = "create"]]
       ELSE IF Cardinality(found) = 1
       THEN [w |-> w,
             l |-> [l EXCEPT !.pc = "item", !.cart = (CHOOSE k \in found : TRUE).id]]
       ELSE [w |-> w,
             l |-> [l EXCEPT !.pc = "done", !.resp = "500",
                             !.err = "MultipleObjectsReturned"]]

\* get_or_create, second half: the INSERT of the row the SELECT did not find.
GC_create(w, l) ==
    LET s == w.sessions[l.c]
        id == Cardinality(w.carts) + 1
    IN [w |-> [w EXCEPT !.carts = @ \cup
                 {[id |-> id, user |-> s.user,
                   session_key |-> IF s.user # NoUser THEN NoKey ELSE s.key]}],
        l |-> [l EXCEPT !.pc = "item", !.cart = id]]

\* lines 1516-1524: the insert of the line item and the redirect
GC_item(w, l) ==
    LET i == CartItem_create(w, l.cart, l.course, 0)
    IN [w |-> i.w,
        l |-> [l EXCEPT !.pc = "done", !.resp = "redirect_cart_view",
                        !.msg = IF i.ok THEN "added to cart."
                                ELSE "This item is already in your cart."]]

GC_step(w, l) ==
    CASE l.pc = "get" -> GC_get(w, l)
      [] l.pc = "create" -> GC_create(w, l)
      [] l.pc = "item" -> GC_item(w, l)

\* An add_course_to_cart request arrives.
GC_start(c, course) ==
    /\ proc[c] = Idle
    /\ proc' = [proc EXCEPT ![c] = CartRequest(c, course)]
    /\ UNCHANGED <<users, carts, cartItems, nextItemId, enrollments,
                   sessionEnrollments, courseProgress, sessions, nextKey, connections,
                   peerMessages,
                   intents, now, last>>

\* The request in flight runs its next database statement.
GC_next(c) ==
    /\ proc[c] # Idle
    /\ LET s == GC_step(World, proc[c])
       IN /\ s.w.nextItemId <= MaxItemId + 1
          /\ SetWorld(s.w)
          /\ IF s.l.pc = "done"
             THEN proc' = [proc EXCEPT ![c] = Idle] /\ last' = s.l
             ELSE proc' = [proc EXCEPT ![c] = s.l] /\ UNCHANGED last
    /\ UNCHANGED <<intents, now>>

NextCartConc ==
    \/ \E c \in Clients, course \in Courses : GC_start(c, course)
    \/ \E c \in Clients : GC_next(c)

SpecCartConc == InitTabs /\ [][NextCartConc]_vars

\* ------------------------------------------------------ enrollment views
\* Direct enrollment, the payment webhook handlers and the checkout of the
\* signed-in member, on one database.
FreeCourses == {3}       \* a course with price 0

Catalog == Courses \cup FreeCourses

course_price(course) == IF course \in Courses THEN CoursePrice[course] ELSE 0

\* course.max_students (0: no limit)
max_students == [course \in Catalog |-> IF course = 2 THEN 1 ELSE 0]

UserIds(w) == {u.id : u \in w.users}

\* The browsers of signed-in users: the views below are @login_required.
SignedIn == {c \in Clients : sessions[c].user # NoUser}

\* request.user.enrollments.filter(course=course).exists()
already_enrolled(w, user, course) ==
    \E e \in w.enrollments : e.student = user /\ e.course = course

\* course.max_students and course.enrollments.count() >= course.max_students
course_is_full(w, course) ==
    /\ max_students[course] # 0
    /\ Cardinality({e \in w.enrollments : e.course = course}) >= max_students[course]

\* What a view or handler left behind: its name, the browser, the error it
\* ended with ("" for none) and the status the enrollment it touched had.
Handled(op, c, err, was) == last' = [op |-> op, c |-> c, err |-> err, was |-> was]

\* The outcomes of send_enrollment_confirmation and
\* notify_teacher_new_enrollment: both return, or one of them raises.
NotificationOutcomes ==
    {"", "send_enrollment_confirmation", "notify_teacher_new_enrollment"}

enroll_course(c, course) ==
    /\ c \in SignedIn
    /\ LET user == sessions[c].user
           pending == Enrollment_create(World, user, course, "pending", NoRef)
           approved == Enrollment_create(World, user, course, "approved", NoRef)
       IN IF already_enrolled(World, user, course)
          THEN /\ SetWorld(World)
               /\ Handled("enroll_course", c, "You are already enrolled in this course.", "")
          ELSE IF course_is_full(World, course)
          THEN /\ SetWorld(World)
               /\ Handled("enroll_course", c, "This course is full.", "")
          ELSE IF course_price(course) > 0
          THEN /\ SetWorld(pending.w)
               /\ Handled("enroll_course", c,
                          IF pending.ok THEN "" ELSE "IntegrityError", "")
          ELSE /\ SetWorld(approved.w)
               /\ IF approved.ok
                  THEN \E err \in NotificationOutcomes :
                          Handled("enroll_course", c, err, "")
                  ELSE Handled("enroll_course", c, "IntegrityError", "")
    /\ UNCHANGED <<intents, now, proc>>

api_enroll(c, method, course) ==
    /\ c \in SignedIn
    /\ LET user == sessions[c].user
           e == Enrollment_create(World, user, course, "pending", NoRef)
       IN IF method # "POST"
          THEN /\ SetWorld(World)
               /\ Handled("api_enroll", c, "Only POST method is allowed", "")
          ELSE IF already_enrolled(World, user, course)
          THEN /\ SetWorld(World)
               /\ Handled("api_enroll", c, "Already enrolled", "")
          ELSE /\ SetWorld(e.w)
               /\ Handled("api_enroll", c, IF e.ok THEN "" ELSE "IntegrityError", "")
    /\ UNCHANGED <<intents, now, proc>>

\* The status of the enrollment of (student, course), "none" when there is none.
StatusOf(w, student, course) ==
    IF already_enrolled(w, student, course)
    THEN (CHOOSE e \in w.enrollments : e.student = student /\ e.course = course).status
    ELSE "none"

\* enrollment.status = status; enrollment.save()
Enrollment_set_status(w, student, course, status) ==
    [w EXCEPT !.enrollments =
        {IF e.student = student /\ e.course = course
         THEN [e EXCEPT !.status = status] ELSE e : e \in @}]

\* Enrollment.objects.get_or_create(student=user, course=course,
\*                                  defaults={"status": "pending"})[0]
Enrollment_get_or_create(w, student, course) ==
    IF already_enrolled(w, student, course) THEN w
    ELSE Enrollment_create(w, student, course, "pending", NoRef).w

\* The metadata of the event names a course and a user the database has.
Resolves(w, course_id, user_id) == course_id \in Catalog /\ user_id \in UserIds(w)

\* Mutant: the new status is assigned and never saved.
approve_not_saved(w, student, course) == w

\* lines 647-648: enrollment.status = "approved"; enrollment.save()
approve(w, student, course) == Enrollment_set_status(w, student, course, "approved")

\* handle_successful_payment as a function of the database: its outcomes
\* [w, err], err being the exception that leaves the handler ("" for none).
\* Course.objects.get / User.objects.get raise DoesNotExist before any write;
\* a notification raises after the save.
successful_payment(w, course_id, user_id) ==
    IF ~Resolves(w, course_id, user_id)
    THEN {[w |-> w, err |-> "DoesNotExist"]}
    ELSE {[w |-> approve(Enrollment_get_or_create(w, user_id, course_id),
                         user_id, course_id),
           err |-> err] : err \in NotificationOutcomes}

handle_successful_payment(course_id, user_id) ==
    /\ \E r \in successful_payment(World, course_id, user_id) :
          /\ SetWorld(r.w)
          /\ Handled("handle_successful_payment", "", r.err,
                     StatusOf(World, user_id, course_id))
    /\ UNCHANGED <<intents, now, proc>>

\* Mutant: a failed payment for an enrollment that is pending withdraws it.
reset_to_pending_or_withdraw(w, student, course) ==
    IF StatusOf(w, student, course) = "pending"
    THEN [w EXCEPT !.enrollments =
             {e \in @ : ~(e.student = student /\ e.course = course)}]
    ELSE Enrollment_set_status(w, student, course, "pending")

\* Mutant: only an approved enrollment is set back to pending.
reset_to_pending_if_approved(w, student, course) ==
    IF StatusOf(w, student, course) = "approved"
    THEN Enrollment_set_status(w, student, course, "pending")
    ELSE w

\* lines 663-665: enrollment.status = "pending"; enrollment.save()
reset_to_pending(w, student, course) ==
    Enrollment_set_status(w, student, course, "pending")

\* Mutant: the lookup failure leaves the handler.
not_swallowed(exc) == exc

\* except (Course.DoesNotExist, User.DoesNotExist, Enrollment.DoesNotExist): pass
swallowed(exc) == ""

\* handle_failed_payment as a function of the database: [w, err].
failed_payment(w, course_id, user_id) ==
    IF Resolves(w, course_id, user_id) /\ already_enrolled(w, user_id, course_id)
    THEN [w |-> reset_to_pending(w, user_id, course_id), err |-> ""]
    ELSE [w |-> w, err |-> swallowed("DoesNotExist")]

handle_failed_payment(course_id, user_id) ==
    /\ LET r == failed_payment(World, course_id, user_id)
       IN /\ SetWorld(r.w)
          /\ Handled("handle_failed_payment", "", r.err,
                     IF Resolves(World, course_id, user_id)
                     THEN StatusOf(World, user_id, course_id) ELSE "none")
    /\ UNCHANGED <<intents, now, proc>>

\* The student finishes the course: the completion event of the data model.
complete_enrollment(student, course) ==
    /\ StatusOf(World, student, course) = "approved"
    /\ SetWorld(Enrollment_set_status(World, student, course, "completed"))
    /\ Handled("complete_enrollment", "", "", "approved")
    /\ UNCHANGED <<intents, now, proc>>

\* The ids an event's metadata can carry: every user, and an id of none.
MetadataUserIds == {0, 1, 2}

\* What stripe.Webhook.construct_event does with the payload and signature:
\* it returns the event, or raises ValueError (payload) or
\* SignatureVerificationError (signature).
Verdicts == {"ok", "ValueError", "SignatureVerificationError"}

EventTypes ==
    {"payment_intent.succeeded", "payment_intent.payment_failed", "charge.refunded"}

\* Mutant: the event is used whatever the verification said.
verified_unchecked(verdict) == TRUE

\* lines 614-621: construct_event returned
verified(verdict) == verdict = "ok"

\* The response of the webhook: 400 for an event that fails verification,
\* 200 after the handler returned, 500 when the handler raised.
stripe_webhook(verdict, type, course_id, user_id) ==
    /\ LET note(err, status) ==
               last' = [op |-> "stripe_webhook", c |-> "", err |-> err,
                        was |-> "none", verdict |-> verdict, status |-> status]
           f == failed_payment(World, course_id, user_id)
       IN IF ~verified(verdict)
          THEN SetWorld(World) /\ note(verdict, 400)
          ELSE IF type = "payment_intent.succeeded"
          THEN \E r \in successful_payment(World, course_id, user_id) :
                  /\ SetWorld(r.w)
                  /\ note(r.err, IF r.err = "" THEN 200 ELSE 500)
          ELSE IF type = "payment_intent.payment_failed"
          THEN SetWorld(f.w) /\ note(f.err, IF f.err = "" THEN 200 ELSE 500)
          ELSE SetWorld(World) /\ note("", 200)
    /\ UNCHANGED <<intents, now, proc>>

NextEnroll ==
    \/ \E c \in Clients, course \in Catalog : enroll_course(c, course)
    \/ \E c \in Clients, method \in {"GET", "POST"}, course \in Catalog :
          api_enroll(c, method, course)
    \/ \E course_id \in Catalog \cup {0}, user_id \in MetadataUserIds :
          handle_successful_payment(course_id, user_id)
    \/ \E course_id \in Catalog \cup {0}, user_id \in MetadataUserIds :
          handle_failed_payment(course_id, user_id)
    \/ \E student \in MetadataUserIds, course \in Catalog :
          complete_enrollment(student, course)
    \/ \E c \in SignedIn, course \in Courses : add_course_to_cart(c, course)
    \/ \E c \in SignedIn : create_cart_payment_intent(c, TRUE)
    \/ \E ref \in PaymentRefs, email \in Emails : Gateway_succeed(ref, email)
    \/ \E c \in SignedIn, ref \in PaymentRefs : checkout_success(c, ref)

SpecEnroll == Init /\ [][NextEnroll]_vars

\* Direct enrollment and the webhook handlers alone, without the cart.
NextPayment ==
    \/ \E c \in Clients, course \in Catalog : enroll_course(c, course)
    \/ \E c \in Clients, method \in {"GET", "POST"}, course \in Catalog :
          api_enroll(c, method, course)
    \/ \E course_id \in Catalog \cup {0}, user_id \in MetadataUserIds :
          handle_successful_payment(course_id, user_id)
    \/ \E course_id \in Catalog \cup {0}, user_id \in MetadataUserIds :
          handle_failed_payment(course_id, user_id)
    \/ \E student \in MetadataUserIds, course \in Catalog :
          complete_enrollment(student, course)

SpecPayment == Init /\ [][NextPayment]_vars

\* Direct enrollment and the webhook endpoint.
NextWebhook ==
    \/ \E c \in Clients, course \in Catalog : enroll_course(c, course)
    \/ \E c \in Clients, method \in {"GET", "POST"}, course \in Catalog :
          api_enroll(c, method, course)
    \/ \E verdict \in Verdicts, type \in EventTypes,
          course_id \in Catalog \cup {0}, user_id \in MetadataUserIds :
          stripe_webhook(verdict, type, course_id, user_id)

SpecWebhook == Init /\ [][NextWebhook]_vars

\* Two members, each signed in on a browser of their own: the registered
\* user on c1 and a second account on c2.
Member ==
    [id |-> 2, username |-> Handle(<<"o", "l", "d">>, 0, ""),
     email |-> [local |-> <<"o", "l", "d">>, domain |-> "x.com"]]

InitMembers ==
    /\ users = {Registered, Member}
    /\ carts = {}
    /\ cartItems = {}
    /\ nextItemId = 1
    /\ enrollments = {}
    /\ sessionEnrollments = {}
    /\ courseProgress = {}
    /\ sessions = [c \in Clients |->
                     [key |-> NoKey,
                      user |-> IF c = "c1" THEN Registered.id ELSE Member.id]]
    /\ nextKey = 1
    /\ connections = {}
    /\ peerMessages = {}
    /\ intents = [r \in PaymentRefs |-> NoIntent]
    /\ now = 0
    /\ proc = [c \in Clients |-> Idle]
    /\ last = [op |-> "none", c |-> ""]

\* The four ways into a course, for two members and the limited course.
LimitedCourses == {course \in Catalog : max_students[course] # 0}

NextCapacity ==
    \/ \E c \in Clients, course \in LimitedCourses : enroll_course(c, course)
    \/ \E c \in Clients, course \in LimitedCourses : api_enroll(c, "POST", course)
    \/ \E course_id \in LimitedCourses, user_id \in MetadataUserIds :
          handle_successful_payment(course_id, user_id)
    \/ \E c \in Clients, course \in LimitedCourses : add_course_to_cart(c, course)
    \/ \E c \in Clients : create_cart_payment_intent(c, TRUE)
    \/ \E ref \in PaymentRefs, email \in Emails : Gateway_succeed(ref, email)
    \/ \E c \in Clients, ref \in PaymentRefs : checkout_success(c, ref)

SpecCapacity == InitMembers /\ [][NextCapacity]_vars

\* ------------------------------------------------------- peer connections
\* A third account, signed in on no browser.
Outsider ==
    [id |-> 3, username |-> Handle(<<"o", "u", "t">>, 0, ""),
     email |-> [local |-> <<"o", "u", "t">>, domain |-> "x.com"]]

InitPeers ==
    /\ users = {Registered, Member, Outsider}
    /\ carts = {}
    /\ cartItems = {}
    /\ nextItemId = 1
    /\ enrollments = {}
    /\ sessionEnrollments = {}
    /\ courseProgress = {}
    /\ sessions = [c \in Clients |->
                     [key |-> NoKey,
                      user |-> IF c = "c1" THEN Registered.id ELSE Member.id]]
    /\ nextKey = 1
    /\ connections = {}
    /\ peerMessages = {}
    /\ intents = [r \in PaymentRefs |-> NoIntent]
    /\ now = 0
    /\ proc = [c \in Clients |-> Idle]
    /\ last = [op |-> "none", c |-> ""]

\* What a peer view left behind: its name, the browser, the action or
\* method in the request, and how it answered.
Peered(op, c, action, resp) ==
    last' = [op |-> op, c |-> c, action |-> action, resp |-> resp]

send_connection_request(c, user_id) ==
    /\ c \in SignedIn
    /\ LET user == sessions[c].user
           found == {k \in connections : k.sender = user /\ k.receiver = user_id}
           new == [id |-> Cardinality(connections) + 1, sender |-> user,
                   receiver |-> user_id, status |-> "pending"]
           noted(resp) == Peered("send_connection_request", c, "", resp)
       IN IF user_id \notin UserIds(World)
          THEN SetWorld(World) /\ noted("404")
          ELSE IF user = user_id
          THEN SetWorld(World) /\ noted("You cannot connect with yourself!")
          ELSE IF found # {}
          THEN SetWorld(World) /\ noted("Connection request already sent")
          ELSE /\ SetWorld([World EXCEPT !.connections = @ \cup {new}])
               /\ noted("Connection request sent")
    /\ UNCHANGED <<intents, now, proc>>

\* Mutant: the lookup does not ask for status = "pending".
PeerConnection_get_any_status(w, id, receiver) ==
    {k \in w.connections : k.id = id /\ k.receiver = receiver}

\* get_object_or_404(PeerConnection, id=connection_id, receiver=request.user,
\*                   status="pending"): the rows that match (none: 404)
PeerConnection_get(w, id, receiver) ==
    {k \in w.connections : k.id = id /\ k.receiver = receiver /\ k.status = "pending"}

\* lines 1052-1057: the status the action gives the connection
status_after(status, action) ==
    IF action = "accept" THEN "accepted"
    ELSE IF action = "reject" THEN "rejected"
    ELSE status

handle_connection_request(c, connection_id, action) ==
    /\ c \in SignedIn
    /\ LET found == PeerConnection_get(World, connection_id, sessions[c].user)
           noted(resp) ==
               Peered("handle_connection_request", c, action, resp)
       IN IF found = {}
          THEN SetWorld(World) /\ noted("404")
          ELSE /\ SetWorld([World EXCEPT !.connections =
                      {IF k \in found
                       THEN [k EXCEPT !.status = status_after(@, action)]
                       ELSE k : k \in @}])
               /\ noted("redirect")
    /\ UNCHANGED <<intents, now, proc>>

\* lines 1069-1072: an accepted connection between the two, in either direction
connected(w, user, peer) ==
    \E k \in w.connections :
        /\ k.status = "accepted"
        /\ \/ k.sender = user /\ k.receiver = peer
           \/ k.sender = peer /\ k.receiver = user

peer_messages(c, user_id, method, content) ==
    /\ c \in SignedIn
    /\ method = "POST" => Cardinality(peerMessages) < MaxMessages
    /\ LET user == sessions[c].user
           new == [id |-> Cardinality(peerMessages) + 1, sender |-> user,
                   receiver |-> user_id, content |-> content, is_read |-> FALSE]
           posted == IF method = "POST" /\ content # ""
                     THEN peerMessages \cup {new} ELSE peerMessages
           read == {IF m.sender = user_id /\ m.receiver = user
                    THEN [m EXCEPT !.is_read = TRUE] ELSE m : m \in posted}
           noted(resp) == Peered("peer_messages", c, method, resp)
       IN IF user_id \notin UserIds(World)
          THEN SetWorld(World) /\ noted("404")
          ELSE IF ~connected(World, user, user_id)
          THEN SetWorld(World) /\ noted("You must be connected with this user")
          ELSE /\ SetWorld([World EXCEPT !.peerMessages = read])
               /\ noted("messages")
    /\ UNCHANGED <<intents, now, proc>>

\* The ids and values a peer request can carry.
PeerUserIds == {0, 1, 2, 3}

ConnectionIds == 1..4

PeerActions == {"accept", "reject", "block"}

Contents == {"", "hi"}

NextPeer ==
    \/ \E c \in Clients, user_id \in PeerUserIds : send_connection_request(c, user_id)
    \/ \E c \in Clients, connection_id \in ConnectionIds, action \in PeerActions :
          handle_connection_request(c, connection_id, action)
    \/ \E c \in Clients, user_id \in PeerUserIds, method \in {"GET", "POST"},
          content \in Contents : peer_messages(c, user_id, method, content)

SpecPeer == InitPeers /\ [][NextPeer]_vars

\* ================================================================ claims
\* In Spec a request is one action, so whenever last is a checkout_success
\* frame the database is the one that request left: last.pre is the database
\* before it and the variables are the database after it.
LastCheckout == last.op = "checkout_success"

Paid(ref) == ref # NoRef /\ intents[ref].status = "succeeded"

HasContact == last.guest => intents[last.ref].receipt_email # NoEmail

NewEnrollments == enrollments \ last.pre.enrollments

NewSessionEnrollments == sessionEnrollments \ last.pre.sessionEnrollments

CourseItems(items) == {i \in items : i.course # 0}

SessionItems(items) == {i \in items : i.course = 0 /\ i.session # 0}

\* One new Enrollment per course item and one new SessionEnrollment per
\* session item of the cart the request resolved, and none besides.
OnePerItem ==
    /\ \A i \in CourseItems(last.items) :
          Cardinality({e \in NewEnrollments : e.course = i.course}) = 1
    /\ \A i \in SessionItems(last.items) :
          Cardinality({e \in NewSessionEnrollments : e.session = i.session}) = 1
    /\ Cardinality(NewEnrollments) = Cardinality(CourseItems(last.items))
    /\ Cardinality(NewSessionEnrollments) = Cardinality(SessionItems(last.items))

CartCleared == CartItemsOf(World, last.cart) = {}

CollaboratorErrors ==
    {"send_welcome_email", "send_enrollment_confirmation",
     "notify_teacher_new_enrollment"}

TablesUnchanged ==
    /\ users = last.pre.users
    /\ cartItems = last.pre.cartItems
    /\ enrollments = last.pre.enrollments
    /\ sessionEnrollments = last.pre.sessionEnrollments
    /\ courseProgress = last.pre.courseProgress

\* C1 (as claimed): for every non-empty cart and succeeded payment intent,
\* whatever enrollments the resolved user already holds, checkout_success
\* creates exactly one Enrollment per course item and one SessionEnrollment
\* per session item and leaves the cart empty.  (Stated for requests whose
\* guest has a receipt email and in which no collaborator raises.)
C1_OneEnrollmentPerItem ==
    (/\ LastCheckout
     /\ Paid(last.ref)
     /\ last.items # {}
     /\ HasContact
     /\ last.err \notin CollaboratorErrors)
    => (OnePerItem /\ CartCleared)

\* C2 (as claimed): checkout is all-or-nothing: a request ends with a record
\* for every cart item and the cart emptied, or with a failure in which the
\* cart holds all its items and no record the request created remains.
C2_AllOrNothing ==
    LastCheckout =>
        \/ last.resp = "receipt" /\ OnePerItem /\ CartCleared
        \/ /\ last.resp = "redirect_cart_view"
           /\ CartItemsOf(World, last.cart) = last.items
           /\ NewEnrollments = {}
           /\ NewSessionEnrollments = {}

\* C3 (as claimed): a checkout of a cart with zero items fails with the
\* empty-cart error and writes nothing: no user, cart, cart item,
\* enrollment, session-enrollment or progress record is created or changed.
C3_EmptyCartNoWrites ==
    (LastCheckout /\ Paid(last.ref) /\ last.items = {})
    => (/\ last.msg = "Cart is empty."
        /\ TablesUnchanged
        /\ carts = last.pre.carts)

\* The cart that get_or_create_cart makes for the requester on first access.
FirstAccessCart(k) ==
    LET before == last.pre.sessions[last.c]
    IN /\ k \notin last.pre.carts
       /\ IF before.user # NoUser
          THEN /\ k.user = before.user
               /\ ~\E j \in last.pre.carts : j.user = before.user
          ELSE /\ k.user = NoUser
               /\ k.session_key = sessions[last.c].key
               /\ k.session_key # NoKey
               /\ ~\E j \in last.pre.carts : j.session_key = k.session_key

\* C3 (amended): a checkout of a cart with zero items fails with the
\* empty-cart error and creates, changes or deletes no user, cart item,
\* enrollment, session-enrollment or progress record and no existing cart;
\* its only write is the empty cart made on the requester's first access.
C3_EmptyCartWritesOnlyFirstCart ==
    (LastCheckout /\ Paid(last.ref) /\ last.items = {})
    => (/\ last.msg = "Cart is empty."
        /\ last.resp = "redirect_cart_view"
        /\ TablesUnchanged
        /\ \/ carts = last.pre.carts
           \/ \E k \in carts : carts = last.pre.carts \cup {k} /\ FirstAccessCart(k))

C3_Witness ==
    /\ LastCheckout
    /\ last.msg = "Cart is empty."
    /\ carts # last.pre.carts

\* C4: a checkout whose payment reference is missing, unknown to the gateway
\* or not in the succeeded state is redirected and leaves the whole database
\* (users, carts, cart items, enrollments, session-enrollments) as it was.
C4_UnpaidCheckoutWritesNothing ==
    (LastCheckout /\ ~Paid(last.ref))
    => (last.resp = "redirect_cart_view" /\ World = last.pre)

C4_Witness ==
    /\ LastCheckout
    /\ last.ref # NoRef
    /\ intents[last.ref].status = "requires_payment_method"
    /\ \E k \in carts :
          /\ k.user = sessions[last.c].user
          /\ k.session_key = sessions[last.c].key
          /\ CartItemsOf(World, k.id) # {}

TaggedCount(w, ref) ==
    Cardinality({e \in w.enrollments : e.payment_intent_id = ref})
    + Cardinality({e \in w.sessionEnrollments : e.payment_intent_id = ref})

\* C5: materialization is not at-most-once per payment reference: a checkout
\* with a succeeded reference that already tags records of an earlier
\* checkout, and in which nothing raises, still returns the receipt and adds
\* one record per cart item under the same reference.
C5_ReferenceReused ==
    (/\ LastCheckout
     /\ Paid(last.ref)
     /\ last.items # {}
     /\ HasContact
     /\ TaggedCount(last.pre, last.ref) > 0
     /\ last.err = "")
    => (/\ last.resp = "receipt"
        /\ TaggedCount(World, last.ref)
             = TaggedCount(last.pre, last.ref) + Cardinality(last.items))

C5_Witness ==
    /\ LastCheckout
    /\ last.resp = "receipt"
    /\ last.items # {}
    /\ TaggedCount(last.pre, last.ref) > 0
    /\ TaggedCount(World, last.ref) > TaggedCount(last.pre, last.ref)

\* C6 (as claimed): when send_enrollment_confirmation or
\* notify_teacher_new_enrollment raises, checkout still materializes every
\* cart item, clears the cart and returns the receipt.
C6_NotificationFailureDoesNotAbort ==
    (LastCheckout /\ last.err \in {"send_enrollment_confirmation",
                                   "notify_teacher_new_enrollment"})
    => (last.resp = "receipt" /\ OnePerItem /\ CartCleared)

\* C7 (as claimed): when send_welcome_email raises in a guest checkout, the
\* new user and the transfer of the cart to that user persist.
C7_WelcomeFailureKeepsAccount ==
    (LastCheckout /\ last.err = "send_welcome_email")
    => \E u \in users \ last.pre.users :
          /\ u.username = last.username
          /\ \E k \in carts : k.id = last.cart /\ k.user = u.id

\* A guest checkout that got as far as the account-creation block.
ReachedAccountCreation ==
    /\ LastCheckout
    /\ last.guest
    /\ Paid(last.ref)
    /\ last.items # {}
    /\ intents[last.ref].receipt_email # NoEmail

\* C8: the account-creation block is all-or-nothing: after a guest checkout
\* that reached it either one new user exists and the cart is that user's
\* (session key emptied), or no new user exists and the cart is still the
\* anonymous session's; a block left by an exception leaves neither write.
C8_AccountCreationAtomic ==
    ReachedAccountCreation =>
        LET cart == CHOOSE k \in carts : k.id = last.cart
            old == CHOOSE k \in last.pre.carts : k.id = last.cart
        IN IF last.user # NoUser
           THEN /\ \E u \in users : /\ users = last.pre.users \cup {u}
                                    /\ u \notin last.pre.users
                                    /\ u.id = last.user
                                    /\ u.username = last.username
                /\ cart = [old EXCEPT !.user = last.user, !.session_key = NoKey]
                /\ old.user = NoUser
           ELSE /\ users = last.pre.users
                /\ carts = last.pre.carts
                /\ cart.user = NoUser
                /\ cart.session_key # NoKey

C8_Witness ==
    /\ ReachedAccountCreation
    /\ last.err = "send_welcome_email"
    /\ users = last.pre.users

C8_WitnessCreated ==
    /\ ReachedAccountCreation
    /\ last.user # NoUser
    /\ \E k \in carts : k.id = last.cart /\ k.user = last.user

\* C9 (as claimed), under interleaved requests: every guest checkout that
\* reaches account creation creates its user, under a username that no
\* existing user holds.
C9_GuestUsernameUnused ==
    (/\ LastCheckout
     /\ last.guest
     /\ last.pc = "done"
     /\ last.username # Handle(<< >>, 0, ""))
    => ~(last.user = NoUser /\ last.err = "IntegrityError")

\* C10: a guest checkout whose succeeded payment intent has no receipt email
\* is redirected with the missing-email message and writes nothing: the
\* database after it is the database before it.
C10_MissingEmailWritesNothing ==
    (/\ LastCheckout
     /\ Paid(last.ref)
     /\ last.items # {}
     /\ last.pre.sessions[last.c].user = NoUser
     /\ intents[last.ref].receipt_email = NoEmail)
    => (/\ last.resp = "redirect_cart_view"
        /\ last.msg = "No email provided for guest checkout."
        /\ World = last.pre)

C10_Witness ==
    /\ LastCheckout
    /\ last.msg = "No email provided for guest checkout."
    /\ last.items # {}
    /\ \E k \in carts : k.id = last.cart /\ k.session_key # NoKey

NewCourseProgress == courseProgress \ last.pre.courseProgress

\* C12: every Enrollment and SessionEnrollment a checkout creates is
\* approved, belongs to the resolved user (in a guest checkout the account
\* the request created) and carries the request's payment reference; every
\* new Enrollment has exactly one CourseProgress, with no completed session,
\* and no other CourseProgress is created (none for session items).
C12_RecordsOfCheckout ==
    LastCheckout =>
        /\ \A e \in NewEnrollments \cup NewSessionEnrollments :
              /\ e.status = "approved"
              /\ e.student = last.user
              /\ e.student # NoUser
              /\ e.payment_intent_id = last.ref
        /\ (last.guest /\ last.user # NoUser) =>
              /\ last.user \notin {u.id : u \in last.pre.users}
              /\ last.user \in {u.id : u \in users}
        /\ \A e \in NewEnrollments :
              /\ Cardinality({p \in courseProgress : p.enrollment = e.id}) = 1
              /\ \A p \in courseProgress :
                    p.enrollment = e.id => p.completed_sessions = {}
        /\ \A p \in NewCourseProgress : \E e \in NewEnrollments : p.enrollment = e.id
        /\ Cardinality(NewCourseProgress) = Cardinality(NewEnrollments)

C12_Witness ==
    /\ LastCheckout
    /\ last.guest
    /\ last.resp = "receipt"
    /\ NewEnrollments # {}
    /\ NewSessionEnrollments # {}
    /\ NewCourseProgress # {}

\* C13: the total on the receipt of a successful checkout is the sum of the
\* prices of the courses and sessions of the line items the cart held, which
\* is the cart's total taken just before the checkout.
C13_ReceiptTotal ==
    (LastCheckout /\ last.resp = "receipt")
    => (/\ last.total_amount = SumPrices(last.items)
        /\ last.total_amount = CartTotal(last.pre, last.cart)
        /\ last.items = CartItemsOf(last.pre, last.cart))

\* cart = [session S ($5), course B ($20)]: total = 25
C13_Witness ==
    /\ LastCheckout
    /\ last.resp = "receipt"
    /\ CourseItems(last.items) # {}
    /\ SessionItems(last.items) # {}
    /\ last.total_amount = 25

\* The records whose ids the request appended to its lists before it ended.
CreatedByRequest(ids, table) == \A n \in 1..Len(ids) : \E e \in table : e.id = ids[n]

\* C14: checkout_success lets no error escape: every request ends with the
\* receipt or with a redirect to the cart view that carries an error message,
\* whichever of the gateway, the database or a collaborator failed; on the
\* failure path nothing the request already wrote is cleaned up: the records
\* it created remain and the cart keeps its items.
C14_ErrorsBecomeRedirects ==
    LastCheckout =>
        /\ last.pc = "done"
        /\ last.resp \in {"receipt", "redirect_cart_view"}
        /\ last.resp = "redirect_cart_view" => last.msg # ""
        /\ last.resp = "receipt" => last.err = "" /\ last.msg = ""
        /\ last.err # "" =>
              /\ last.resp = "redirect_cart_view"
              /\ last.msg \in {"Failed to process checkout",
                               "Payment verification failed"}
              /\ CreatedByRequest(last.enrollments, NewEnrollments)
              /\ CreatedByRequest(last.session_enrollments, NewSessionEnrollments)
              /\ Cardinality(NewEnrollments) = Len(last.enrollments)
              /\ Cardinality(NewCourseProgress) = Len(last.enrollments)
              /\ CartItemsOf(World, last.cart) = last.items

C14_Witness ==
    /\ LastCheckout
    /\ last.err = "notify_teacher_new_enrollment"
    /\ last.resp = "redirect_cart_view"
    /\ Len(last.enrollments) = 2
    /\ Cardinality(NewEnrollments) = 2

\* C15: a cart that has a user keeps that user, and its session key stays
\* empty, through every later operation (the cart is never deleted either).
C15_UserCartNeverReassociated ==
    [][\A k \in carts :
          k.user # NoUser =>
              \E j \in carts' : /\ j.id = k.id
                                /\ j.user = k.user
                                /\ j.session_key = NoKey]_vars

\* The cart a guest checkout gave to its new user is in use again: a later
\* add by that user went into it.
C15_Witness ==
    /\ last.op = "add_course_to_cart"
    /\ \E k \in carts, u \in users :
          /\ u # Registered
          /\ k.user = u.id
          /\ k.session_key = NoKey
          /\ sessions[last.c].user = u.id
          /\ CartItemsOf(World, k.id) # {}

\* C16: every cart is owned by exactly one of a user and an anonymous
\* session key: never both, never neither.
C16_CartHasOneOwner ==
    \A k \in carts : (k.user # NoUser) # (k.session_key # NoKey)

\* A guest checkout has just given the visitor's cart to the new user, while
\* another cart belongs to a signed-in user.
C16_Witness ==
    /\ LastCheckout
    /\ last.guest
    /\ last.resp = "receipt"
    /\ \E k \in carts : /\ k.id = last.cart
                        /\ k.user = last.user
                        /\ k.session_key = NoKey
                        /\ \E o \in last.pre.carts : o.id = k.id /\ o.session_key # NoKey
    /\ \E k \in carts : k.user = Registered.id

\* ------------------------------------------------------- cart view claims
\* The carts the requester's identity owned when the last request arrived.
OwnCartsBefore ==
    LET before == last.pre.sessions[last.c]
    IN {k \in last.pre.carts :
          IF before.user # NoUser THEN k.user = before.user
          ELSE before.key # NoKey /\ k.session_key = before.key}

LastAdd == last.op \in {"add_course_to_cart", "add_session_to_cart"}

\* The line items for the course or session of the last add that the
\* requester's cart held when the request arrived.
SameItemBefore ==
    {i \in last.pre.cartItems :
        /\ \E k \in OwnCartsBefore : i.cart = k.id
        /\ IF last.op = "add_course_to_cart"
           THEN i.course = last.arg /\ i.session = 0
           ELSE i.session = last.arg /\ i.course = 0}

\* C18: an add of a course or session that is already a line item of the
\* requester's cart ends with the already-in-your-cart message and leaves
\* carts and line items as they were; an add of anything else inserts one
\* line item; no cart ever holds two line items for one course or session.
C18_DuplicateAddRejected ==
    /\ LastAdd =>
          IF SameItemBefore # {}
          THEN /\ last.msg \in {"This item is already in your cart.",
                                "This session is already in your cart."}
               /\ cartItems = last.pre.cartItems
               /\ carts = last.pre.carts
          ELSE /\ last.msg = "added to cart."
               /\ Cardinality(cartItems \ last.pre.cartItems) = 1
               /\ last.pre.cartItems \subseteq cartItems
    /\ \A i, j \in cartItems :
          (i.cart = j.cart /\ i.course = j.course /\ i.session = j.session) => i = j

\* A second add of a course to the same cart was turned down while another
\* cart holds a line item for the same course.
C18_Witness ==
    /\ last.op = "add_course_to_cart"
    /\ last.msg = "This item is already in your cart."
    /\ \E i, j \in cartItems :
          i.course = last.arg /\ j.course = last.arg /\ i.cart # j.cart

LastRemove == last.op = "remove_from_cart"

\* The item of the requester's own cart that the last remove named.
OwnItemBefore ==
    {i \in last.pre.cartItems :
        i.id = last.arg /\ \E k \in OwnCartsBefore : i.cart = k.id}

\* C19: remove_from_cart with the id of no item, or of an item of another
\* identity's cart, answers not-found and deletes nothing; with the id of an
\* item of the requester's cart it deletes that item and no other.
C19_RemoveOnlyOwnItem ==
    LastRemove =>
        IF OwnItemBefore = {}
        THEN last.resp = "404" /\ cartItems = last.pre.cartItems
        ELSE /\ last.resp = "redirect_cart_view"
             /\ last.msg = "Item removed from cart."
             /\ Cardinality(OwnItemBefore) = 1
             /\ cartItems = last.pre.cartItems \ OwnItemBefore

\* The requester named an item of the other browser's cart.
C19_Witness ==
    /\ LastRemove
    /\ last.resp = "404"
    /\ \E i \in cartItems : i.id = last.arg
    /\ OwnCartsBefore # {}

C19_WitnessRemoved ==
    /\ LastRemove
    /\ last.resp = "redirect_cart_view"
    /\ cartItems # {}
    /\ Cardinality(last.pre.cartItems) = Cardinality(cartItems) + 1

\* C17 (as claimed), under interleaved requests: there is at most one cart
\* per user and at most one per session key, also when two first accesses by
\* the same identity interleave.
C17_OneCartPerIdentity ==
    \A j, k \in carts :
        (j.user = k.user /\ j.session_key = k.session_key) => j = k

\* C17, one request at a time: at most one cart per user and per session key.
C17_OneCartPerIdentitySequential ==
    \A j, k \in carts :
        (j.user = k.user /\ j.session_key = k.session_key) => j = k

\* ------------------------------------------------------ enrollment claims
\* C11: after any sequence of enroll_course, api_enroll,
\* handle_successful_payment, handle_failed_payment and checkout_success
\* there is at most one Enrollment per (student, course), and its status is
\* pending, approved or completed.
C11_EnrollmentUniqueWithStatus ==
    /\ \A d, e \in enrollments :
          (d.student = e.student /\ d.course = e.course) => d = e
    /\ \A e \in enrollments : e.status \in {"pending", "approved", "completed"}

\* checkout_success met the pending enrollment that enroll_course or
\* api_enroll made for a course of the cart.
C11_Witness ==
    /\ LastCheckout
    /\ last.err = "IntegrityError"
    /\ \E e \in enrollments, i \in last.items :
          /\ e.student = last.user
          /\ e.course = i.course
          /\ e.payment_intent_id = NoRef
    /\ \E e \in enrollments : e.status = "completed"

\* C20: handle_failed_payment, when the enrollment its metadata names
\* exists, sets the status of that enrollment to pending whatever it was,
\* creates no enrollment and leaves every other enrollment, and every other
\* table, as it was.
C20_FailedPaymentResetsToPending ==
    [][\A course_id \in Catalog, user_id \in MetadataUserIds :
          (/\ handle_failed_payment(course_id, user_id)
           /\ \E e \in enrollments : e.student = user_id /\ e.course = course_id)
          => /\ enrollments' =
                   {IF e.student = user_id /\ e.course = course_id
                    THEN [e EXCEPT !.status = "pending"] ELSE e : e \in enrollments}
             /\ Cardinality(enrollments') = Cardinality(enrollments)
             /\ \A e \in enrollments' :
                   (e.student = user_id /\ e.course = course_id) => e.status = "pending"
             /\ UNCHANGED <<users, carts, cartItems, sessionEnrollments,
                            courseProgress>>]_vars

\* A failed payment arrived for a completed enrollment, while the member
\* holds another enrollment that is not pending.
C20_Witness ==
    /\ last.op = "handle_failed_payment"
    /\ last.was = "completed"
    /\ \E e \in enrollments : e.status = "pending"
    /\ \E e \in enrollments : e.status # "pending"

\* ------------------------------------------------- webhook handler claims
\* C21: handle_failed_payment is idempotent: in every reachable database,
\* a second call with the same metadata leaves the database the first call
\* left, neither call raises, and the enrollment named (when there is one)
\* is pending after each call.
C21_FailedPaymentIdempotent ==
    \A course_id \in Catalog \cup {0}, user_id \in MetadataUserIds :
        LET once == failed_payment(World, course_id, user_id)
            twice == failed_payment(once.w, course_id, user_id)
        IN /\ twice.w = once.w
           /\ once.err = ""
           /\ twice.err = ""
           /\ StatusOf(World, user_id, course_id) # "none" =>
                 /\ StatusOf(once.w, user_id, course_id) = "pending"
                 /\ StatusOf(twice.w, user_id, course_id) = "pending"

\* handle_failed_payment ran for an enrollment that was already pending,
\* next to one that is not.
C21_Witness ==
    /\ last.op = "handle_failed_payment"
    /\ last.was = "pending"
    /\ last.err = ""
    /\ \E e \in enrollments : e.status = "approved"

\* C22: handle_failed_payment whose metadata names an unknown course, an
\* unknown user or a pair without enrollment raises nothing and changes
\* nothing; it never creates an enrollment.
C22_FailedPaymentUnknownIsNoOp ==
    \A course_id \in Catalog \cup {0}, user_id \in MetadataUserIds :
        LET r == failed_payment(World, course_id, user_id)
        IN /\ Cardinality(r.w.enrollments) = Cardinality(enrollments)
           /\ (\/ course_id \notin Catalog
               \/ user_id \notin UserIds(World)
               \/ ~\E e \in enrollments : e.student = user_id /\ e.course = course_id)
              => (r.w = World /\ r.err = "")

\* The handler met a known user without an enrollment for the course named,
\* while that user holds another enrollment.
C22_Witness ==
    /\ last.op = "handle_failed_payment"
    /\ last.was = "none"
    /\ last.err = ""
    /\ enrollments # {}
    /\ Cardinality(enrollments) < Cardinality(Catalog)

\* C25: handle_successful_payment for metadata that names a course and a
\* user the database has leaves exactly one Enrollment of that pair, with
\* status approved, whether or not one existed and whatever its status was
\* (a raising notification included); a second delivery changes nothing.
C25_SuccessfulPaymentApprovesOnce ==
    \A course_id \in Catalog, user_id \in UserIds(World) :
        \A once \in successful_payment(World, course_id, user_id) :
            /\ Cardinality({e \in once.w.enrollments :
                              e.student = user_id /\ e.course = course_id}) = 1
            /\ StatusOf(once.w, user_id, course_id) = "approved"
            /\ Cardinality(once.w.enrollments) =
                  Cardinality(enrollments)
                  + (IF StatusOf(World, user_id, course_id) = "none" THEN 1 ELSE 0)
            /\ \A twice \in successful_payment(once.w, course_id, user_id) :
                  twice.w = once.w

\* A second delivery: the handler met the enrollment already approved; and
\* the member holds an enrollment the handler made from nothing.
C25_Witness ==
    /\ last.op = "handle_successful_payment"
    /\ last.was = "approved"
    /\ \E e \in enrollments : e.status = "approved"
    /\ \E e \in enrollments : e.status = "completed"

\* C26: stripe_webhook answers an event that fails verification (payload or
\* signature) with 400 and runs neither handler: no table changes.
C26_UnverifiedEventRejected ==
    [][(last'.op = "stripe_webhook" /\ last'.verdict # "ok")
       => /\ last'.status = 400
          /\ UNCHANGED <<users, carts, cartItems, enrollments,
                         sessionEnrollments, courseProgress>>]_vars

\* An event with a bad signature arrived while the member holds a pending
\* enrollment (which a verified payment_intent.succeeded would approve).
C26_Witness ==
    /\ last.op = "stripe_webhook"
    /\ last.status = 400
    /\ last.verdict = "SignatureVerificationError"
    /\ \E e \in enrollments : e.status = "pending"

\* ------------------------------------------------ payment covers the cart
\* C27 (as claimed): a checkout_success that enrolls was paid with an intent
\* that create_cart_payment_intent made for the cart it enrolls from, and
\* the amount of that intent (in cents) is the total of the items enrolled.
C27_IntentCoversEnrolledItems ==
    (LastCheckout /\ last.resp = "receipt")
    => (/\ intents[last.ref].cart_id = last.cart
        /\ intents[last.ref].amount = last.total_amount * 100
        /\ intents[last.ref].amount = SumPrices(last.items) * 100)

\* --------------------------------------------------------------- capacity
\* C29 (as claimed): a course with a positive max_students never has more
\* enrollments than max_students, whatever sequence of enroll_course,
\* api_enroll, handle_successful_payment and checkout_success ran.
C29_EnrollmentsWithinCapacity ==
    \A course \in Catalog :
        max_students[course] > 0
        => Cardinality({e \in enrollments : e.course = course}) <= max_students[course]

\* The part of C29 that is about enroll_course alone: on a full course it
\* creates no enrollment.
C29_EnrollCourseRefusesFullCourse ==
    [][\A c \in Clients, course \in Catalog :
          (enroll_course(c, course) /\ course_is_full(World, course))
          => enrollments' = enrollments]_vars

\* ------------------------------------------------------ reloaded checkout
\* Both loads of the success page have answered, and in neither did a
\* collaborator (welcome email, confirmation, teacher notification) raise.
BothAnswered ==
    \A c \in Clients :
        /\ proc[c] # Idle
        /\ proc[c].pc = "done"
        /\ proc[c].err \notin CollaboratorErrors

\* C28 (as claimed): two interleaved checkout_success requests for one cart
\* and one succeeded payment reference leave at most one Enrollment per
\* course item and one SessionEnrollment per session item, and the cart
\* empty.
C28_ReloadEnrollsOnce ==
    BothAnswered
    => (/\ \A course \in Courses :
              Cardinality({e \in enrollments : e.course = course}) <= 1
        /\ \A session \in Sessions :
              Cardinality({e \in sessionEnrollments : e.session = session}) <= 1
        /\ CartItemsOf(World, 1) = {})

\* The same for the reload of a signed-in member's success page.
C28_MemberReloadEnrollsOnce ==
    (\A c \in Clients : proc[c] # Idle /\ ~proc[c].guest) => C28_ReloadEnrollsOnce

\* ------------------------------------------------------- peer connections
\* The connection with the primary key of k, in the next state.
ConnectionAfter(k) == {j \in connections' : j.id = k.id}

\* A step keeps every connection and its two ends; a status that differs
\* was pending, is now accepted or rejected as the action said, and the step
\* was handle_connection_request of the connection's receiver.
StatusChangesOnlyByReceiver ==
    \A k \in connections :
        \E j \in ConnectionAfter(k) :
            /\ ConnectionAfter(k) = {j}
            /\ j.sender = k.sender
            /\ j.receiver = k.receiver
            /\ j.status # k.status =>
                  /\ k.status = "pending"
                  /\ j.status \in {"accepted", "rejected"}
                  /\ last'.op = "handle_connection_request"
                  /\ sessions[last'.c].user = k.receiver
                  /\ last'.action = (IF j.status = "accepted" THEN "accept" ELSE "reject")

\* A new connection is pending; a request with another action value changes
\* no connection.
OtherActionsChangeNothing ==
    /\ \A j \in connections' :
          (~\E k \in connections : k.id = j.id) => j.status = "pending"
    /\ (last'.op = "handle_connection_request" /\ last'.action \notin {"accept", "reject"})
       => connections' = connections

\* A new message was posted through peer_messages by its sender, who had an
\* accepted connection with its receiver, in one direction or the other.
MessagesOnlyBetweenConnected ==
    \A m \in peerMessages' :
        (~\E n \in peerMessages : n.id = m.id)
        => /\ last'.op = "peer_messages"
           /\ sessions[last'.c].user = m.sender
           /\ \E k \in connections :
                 /\ k.status = "accepted"
                 /\ {k.sender, k.receiver} = {m.sender, m.receiver}

NoSelfConnection == \A k \in connections : k.sender # k.receiver

\* C30: a peer connection's status changes only from pending, only through
\* handle_connection_request of its receiver, only to accepted or rejected
\* (another action value leaves it pending); no connection has its sender
\* as receiver; and peer_messages creates a message only between two users
\* with an accepted connection in either direction.
C30_PeerConnectionLifecycle ==
    /\ []NoSelfConnection
    /\ [][/\ StatusChangesOnlyByReceiver
          /\ OtherActionsChangeNothing
          /\ MessagesOnlyBetweenConnected]_vars

\* One connection was accepted, another rejected and a third is pending, and
\* the last request posted a message over the accepted connection, from its
\* receiver to its sender.
C30_Witness ==
    /\ \E k \in connections : k.status = "rejected"
    /\ \E k \in connections : k.status = "pending"
    /\ last.op = "peer_messages"
    /\ last.action = "POST"
    /\ last.resp = "messages"
    /\ \E m \in peerMessages, k \in connections :
          /\ k.status = "accepted"
          /\ m.sender = k.receiver
          /\ m.receiver = k.sender
          /\ sessions[last.c].user = m.sender

====
